---- MODULE Spec2Model ----
(***************************************************************************)
(* Model of the ESG scenario engine of src/app.py: the four scenario       *)
(* transforms (apply_ghg_scenario, apply_water_scenario,                   *)
(* apply_energy_scenario, apply_waste_scenario), the composite score       *)
(* (combined_esg_scenario) and the script main() that Streamlit re-runs on *)
(* every slider change.                                                    *)
(*                                                                         *)
(* Numbers.  A float column value x is held as the integer x * Scale       *)
(* (Scale = 10^5).  The baselines carry at most two decimals and the       *)
(* scenario parameters are integers (st.slider with int bounds), so every  *)
(* product of the transforms is an exact multiple of Grain = 10 units.     *)
(* The one place where float64 rounding decides an outcome is the          *)
(* subtraction x - (x * 0.005) * k of apply_waste_scenario when the exact  *)
(* difference is 0: there the sign of the float64 difference is computed   *)
(* with 53-bit mantissa arithmetic (float64_sub_sign) and a non-zero       *)
(* difference is held as one unit, below every decimal grain.              *)
(* A score is held in hundredths (100.00 = 10000).                         *)
(***************************************************************************)
EXTENDS Integers, Sequences, FiniteSets, TLC

VARIABLES
    baseline,   \* the four datasets as constructed, never written (history)
    df_ghg,     \* the caller's GHG frame, passed to apply_ghg_scenario
    df_water,   \* the caller's water frame
    df_energy,  \* the caller's energy frame
    df_waste,   \* the caller's waste frame
    call,       \* the last engine call: function, arguments, returned values
    first,      \* <<>> or <<the first transform call made>> (history)
    ncalls,     \* number of transform calls made so far
    slider,     \* main(): the current value of each st.slider widget
    view        \* main(): what the last run of the script displayed

vars == <<baseline, df_ghg, df_water, df_energy, df_waste, call, first, ncalls,
          slider, view>>

(***************************************************************************)
(* Bounds of the model.                                                    *)
(***************************************************************************)
MaxYears == 3
MaxCalls == 3

(***************************************************************************)
(* Fixed-point representation of the float columns.                        *)
(***************************************************************************)
Scale == 10^5
Grain == Scale \div 10^4

\* the decimal literal n / 10^places, e.g. Dec(294, 2) is 2.94
Dec(n, places) == n * (Scale \div 10^places)

(***************************************************************************)
(* float64 arithmetic on positive numbers: a float is [m, e] with a 53-bit *)
(* mantissa m (little-endian limbs of 13 bits) and value m * 2^e.          *)
(***************************************************************************)
Base == 2^13
MantBits == 52 + 1
GuardLimbs == 3 + 3

RECURSIVE Strip(_)
Strip(a) ==
    IF a # <<>> /\ a[Len(a)] = 0 THEN Strip(SubSeq(a, 1, Len(a) - 1)) ELSE a

RECURSIVE ToBig(_)
ToBig(n) ==
    IF n = 0 THEN <<>> ELSE <<n % Base>> \o ToBig(n \div Base)

\* a * k + carry, for a small k
RECURSIVE MulSmall(_, _, _)
MulSmall(a, k, carry) ==
    IF a = <<>>
    THEN ToBig(carry)
    ELSE <<(Head(a) * k + carry) % Base>>
            \o MulSmall(Tail(a), k, (Head(a) * k + carry) \div Base)

LowLimb(a) == IF a = <<>> THEN 0 ELSE Head(a)
HighLimbs(a) == IF a = <<>> THEN a ELSE Tail(a)

RECURSIVE BigAdd(_, _, _)
BigAdd(a, b, carry) ==
    IF a = <<>> /\ b = <<>>
    THEN ToBig(carry)
    ELSE <<(LowLimb(a) + LowLimb(b) + carry) % Base>>
            \o BigAdd(HighLimbs(a), HighLimbs(b),
                      (LowLimb(a) + LowLimb(b) + carry) \div Base)

RECURSIVE BigMul(_, _)
BigMul(a, b) ==
    IF b = <<>>
    THEN <<>>
    ELSE BigAdd(MulSmall(a, Head(b), 0), <<0>> \o BigMul(a, Tail(b)), 0)

\* one step of the short division: hi is the result for the higher limbs
DivStep(hi, lo, d) ==
    [q |-> <<(hi.r * Base + lo) \div d>> \o hi.q, r |-> (hi.r * Base + lo) % d]

\* quotient and remainder of a by a small d
RECURSIVE DivSmall(_, _)
DivSmall(a, d) ==
    IF a = <<>>
    THEN [q |-> <<>>, r |-> 0]
    ELSE DivStep(DivSmall(Tail(a), d), Head(a), d)

RECURSIVE Bits(_)
Bits(n) ==
    IF n = 0 THEN 0 ELSE 1 + Bits(n \div 2)

TopBits(s) == IF s = <<>> THEN 0 ELSE 13 * (Len(s) - 1) + Bits(s[Len(s)])

BitLen(a) == TopBits(Strip(a))

\* a shifted right by 13 * k bits and divided by 2^j (d is that division)
Shifted(d, a, k) ==
    [q |-> Strip(d.q), inexact |-> d.r # 0 \/ \E i \in 1..k : a[i] # 0]

ShiftRight(a, n) ==
    Shifted(DivSmall(SubSeq(a, n \div 13 + 1, Len(a)), 2^(n % 13)), a, n \div 13)

RECURSIVE BigCmp(_, _)
BigCmp(a, b) ==
    IF Len(a) # Len(b) THEN (IF Len(a) < Len(b) THEN -1 ELSE 1)
    ELSE IF a = <<>> THEN 0
    ELSE IF a[Len(a)] # b[Len(b)]
         THEN (IF a[Len(a)] < b[Len(b)] THEN -1 ELSE 1)
    ELSE BigCmp(SubSeq(a, 1, Len(a) - 1), SubSeq(b, 1, Len(b) - 1))

\* a mantissa that grew to 54 bits by rounding up is halved
Renormalize(m, n) ==
    IF BitLen(m) > MantBits
    THEN [m |-> ShiftRight(m, 1).q, e |-> n + 1]
    ELSE [m |-> m, e |-> n]

\* q is the kept part, half the first dropped bit, more whether a later
\* dropped bit is set: round to nearest, ties to even
RoundUp(q, half, more, n) ==
    Renormalize(IF half /\ (more \/ q[1] % 2 = 1)
                THEN Strip(BigAdd(q, <<1>>, 0))
                ELSE q, n)

RoundHalf(t, sticky, n) ==
    RoundUp(ShiftRight(t.q, 1).q, t.q[1] % 2 = 1, t.inexact \/ sticky, n)

\* a (more than 53 bits) rounded to 53 bits: [m, e] with a ~ m * 2^e
RoundNearestEven(a, sticky) ==
    RoundHalf(ShiftRight(a, BitLen(a) - MantBits - 1), sticky, BitLen(a) - MantBits)

Rescale(r, e) == [m |-> r.m, e |-> r.e + e]

FloatOfQuotient(dv) ==
    Rescale(RoundNearestEven(Strip(dv.q), dv.r # 0), 0 - 13 * GuardLimbs)

\* the float64 nearest to n / d (n > 0, 0 < d <= Scale)
FloatOfRatio(n, d) ==
    FloatOfQuotient(DivSmall([i \in 1..GuardLimbs |-> 0] \o ToBig(n), d))

FloatMul(a, b) ==
    Rescale(RoundNearestEven(Strip(BigMul(a.m, b.m)), FALSE), a.e + b.e)

FloatCmp(a, b) ==
    IF a.e # b.e THEN (IF a.e < b.e THEN -1 ELSE 1) ELSE BigCmp(a.m, b.m)

\* sign of fx - (fx * c) * fk
FloatSubSign(fx, c, fk) == FloatCmp(fx, FloatMul(FloatMul(fx, c), fk))

\* sign (-1, 0, 1) of the float64 value x - (x * (milli / 1000)) * k,
\* for a column value x > 0 and k > 0
float64_sub_sign(x, milli, k) ==
    FloatSubSign(FloatOfRatio(x, Scale), FloatOfRatio(milli, 1000), FloatOfRatio(k, 1))

(***************************************************************************)
(* load_data: the sample tables.                                           *)
(***************************************************************************)
load_data ==
    [df_ghg |-> <<
        [Year |-> 2018, Scope12GHG |-> Dec(294, 2)],
        [Year |-> 2019, Scope12GHG |-> Dec(265, 2)],
        [Year |-> 2020, Scope12GHG |-> Dec(251, 2)],
        [Year |-> 2021, Scope12GHG |-> Dec(254, 2)],
        [Year |-> 2022, Scope12GHG |-> Dec(241, 2)],
        [Year |-> 2023, Scope12GHG |-> Dec(229, 2)] >>,
     df_water |-> <<
        [Year |-> 2018, Freshwater_m3 |-> Dec(202, 1), NonFreshwater_m3 |-> Dec(488, 1)],
        [Year |-> 2019, Freshwater_m3 |-> Dec(198, 1), NonFreshwater_m3 |-> Dec(490, 1)],
        [Year |-> 2020, Freshwater_m3 |-> Dec(191, 1), NonFreshwater_m3 |-> Dec(482, 1)],
        [Year |-> 2021, Freshwater_m3 |-> Dec(202, 1), NonFreshwater_m3 |-> Dec(488, 1)],
        [Year |-> 2022, Freshwater_m3 |-> Dec(196, 1), NonFreshwater_m3 |-> Dec(494, 1)],
        [Year |-> 2023, Freshwater_m3 |-> Dec(174, 1), NonFreshwater_m3 |-> Dec(473, 1)] >>,
     df_energy |-> <<
        [Year |-> 2018, Total_Energy_GJ |-> Dec(353, 1), Renewables_pct |-> 3],
        [Year |-> 2019, Total_Energy_GJ |-> Dec(365, 1), Renewables_pct |-> 4],
        [Year |-> 2020, Total_Energy_GJ |-> Dec(338, 1), Renewables_pct |-> 5],
        [Year |-> 2021, Total_Energy_GJ |-> Dec(340, 1), Renewables_pct |-> 6],
        [Year |-> 2022, Total_Energy_GJ |-> Dec(351, 1), Renewables_pct |-> 8],
        [Year |-> 2023, Total_Energy_GJ |-> Dec(364, 1), Renewables_pct |-> 9] >>,
     df_waste |-> <<
        [Year |-> 2018, Hazardous_t |-> Dec(295, 1), NonHazardous_t |-> Dec(55, 1)],
        [Year |-> 2019, Hazardous_t |-> Dec(282, 1), NonHazardous_t |-> Dec(223, 1)],
        [Year |-> 2020, Hazardous_t |-> Dec(279, 1), NonHazardous_t |-> Dec(385, 1)],
        [Year |-> 2021, Hazardous_t |-> Dec(349, 1), NonHazardous_t |-> Dec(320, 1)],
        [Year |-> 2022, Hazardous_t |-> Dec(280, 1), NonHazardous_t |-> Dec(105, 1)],
        [Year |-> 2023, Hazardous_t |-> Dec(239, 1), NonHazardous_t |-> Dec(215, 1)] >>,
     df_biod |-> <<
        [Year |-> 2019, Habitat_Restored_km2 |-> Dec(5, 1), Sites_with_Projects |-> 3],
        [Year |-> 2020, Habitat_Restored_km2 |-> Dec(8, 1), Sites_with_Projects |-> 4],
        [Year |-> 2021, Habitat_Restored_km2 |-> Dec(12, 1), Sites_with_Projects |-> 5],
        [Year |-> 2022, Habitat_Restored_km2 |-> Dec(16, 1), Sites_with_Projects |-> 6],
        [Year |-> 2023, Habitat_Restored_km2 |-> Dec(20, 1), Sites_with_Projects |-> 7] >>]

\* two rows of edge values (zeros, a full and a nearly full renewables
\* share) ahead of the rows of load_data
EdgeRows ==
    [df_ghg |-> <<
        [Year |-> 2016, Scope12GHG |-> 0],
        [Year |-> 2017, Scope12GHG |-> Dec(100, 2)] >>,
     df_water |-> <<
        [Year |-> 2016, Freshwater_m3 |-> 0, NonFreshwater_m3 |-> 0],
        [Year |-> 2017, Freshwater_m3 |-> Dec(1, 1), NonFreshwater_m3 |-> 0] >>,
     df_energy |-> <<
        [Year |-> 2016, Total_Energy_GJ |-> 0, Renewables_pct |-> 100],
        [Year |-> 2017, Total_Energy_GJ |-> Dec(100, 1), Renewables_pct |-> 95] >>,
     df_waste |-> <<
        [Year |-> 2016, Hazardous_t |-> 0, NonHazardous_t |-> 0],
        [Year |-> 2017, Hazardous_t |-> Dec(1, 1), NonHazardous_t |-> Dec(1, 1)] >>]

Frames == {"df_ghg", "df_water", "df_energy", "df_waste"}

SampleTable == [f \in Frames |-> EdgeRows[f] \o load_data[f]]

(***************************************************************************)
(* pandas helpers.                                                         *)
(***************************************************************************)
\* mutants of the two clips: the clip is left out
clip_upper_off(x, hi) == x
clip_lower_off(x, lo) == x

clip_upper(x, hi) == IF x > hi THEN hi ELSE x
clip_lower(x, lo) == IF x < lo THEN lo ELSE x

(***************************************************************************)
(* The transforms.  Each returns [df, ret]: df is the caller's frame after *)
(* the call (the function writes to df.copy(), so it is the argument), ret *)
(* the returned frame, value the returned scalar (0 when there is none).   *)
(***************************************************************************)
\* mutant: the column is written to the caller's frame (no df.copy())
apply_ghg_scenario_inplace(df, additional_reduction_pct) ==
    LET df_scenario ==
            [i \in DOMAIN df |->
                [df[i] EXCEPT !.Scope12GHG =
                    (df[i].Scope12GHG * (100 - additional_reduction_pct)) \div 100]]
    IN  [df |-> df_scenario, ret |-> df_scenario, value |-> 0]

\* mutant: the factor is 1 - pct // 100 (integer division)
apply_ghg_scenario_intdiv(df, additional_reduction_pct) ==
    LET df_scenario ==
            [i \in DOMAIN df |->
                [df[i] EXCEPT !.Scope12GHG =
                    df[i].Scope12GHG * (1 - additional_reduction_pct \div 100)]]
    IN  [df |-> df, ret |-> df_scenario, value |-> 0]

apply_ghg_scenario(df, additional_reduction_pct) ==
    LET df_scenario ==
            [i \in DOMAIN df |->
                [df[i] EXCEPT !.Scope12GHG =
                    (df[i].Scope12GHG * (100 - additional_reduction_pct)) \div 100]]
    IN  [df |-> df, ret |-> df_scenario, value |-> 0]

\* mutant: the step is round(investment_m / 10) instead of the floor
apply_water_scenario_rounded(df, investment_m) ==
    LET reduction_pct == ((investment_m + 5) \div 10) * 1
        df_scenario ==
            [i \in DOMAIN df |->
                [df[i] EXCEPT !.Freshwater_m3 =
                    (df[i].Freshwater_m3 * (100 - reduction_pct)) \div 100]]
    IN  [df |-> df, ret |-> df_scenario, value |-> reduction_pct]

apply_water_scenario(df, investment_m) ==
    LET reduction_pct == (investment_m \div 10) * 1
        df_scenario ==
            [i \in DOMAIN df |->
                [df[i] EXCEPT !.Freshwater_m3 =
                    (df[i].Freshwater_m3 * (100 - reduction_pct)) \div 100]]
    IN  [df |-> df, ret |-> df_scenario, value |-> reduction_pct]

apply_energy_scenario(df, solar_mw_add) ==
    LET step == solar_mw_add \div 10
        added == [i \in DOMAIN df |->
                [df[i] EXCEPT !.Renewables_pct =
                    df[i].Renewables_pct + step]]
        df_scenario == [i \in DOMAIN added |->
                [added[i] EXCEPT !.Renewables_pct =
                    clip_upper(added[i].Renewables_pct, 100)]]
    IN  [df |-> df, ret |-> df_scenario, value |-> 0]

\* the values of the waste columns of the sample table
WasteValues ==
    {SampleTable.df_waste[i].Hazardous_t : i \in DOMAIN SampleTable.df_waste}
        \cup {SampleTable.df_waste[i].NonHazardous_t : i \in DOMAIN SampleTable.df_waste}

\* float64_sub_sign for every <<x, milli, k>> whose exact difference is 0
\* (milli / 1000 * k = 1), computed once
Float64SignTable ==
    [t \in {u \in WasteValues \X {5, 3} \X (1..1000) : u[1] > 0 /\ u[2] * u[3] = 1000}
        |-> float64_sub_sign(t[1], t[2], t[3])]

\* x - (x * (milli / 1000)) * k as float64 computes it: the exact decimal
\* value, or the float64 rounding residue when the exact value is 0
sub_reduction(x, milli, k) ==
    LET reduction == ((x * milli) \div 1000) * k
    IN  IF x - reduction = 0 /\ x > 0 /\ k > 0
        THEN Float64SignTable[<<x, milli, k>>]
        ELSE x - reduction

apply_waste_scenario(df, new_reuse_k) ==
    LET haz == [i \in DOMAIN df |-> sub_reduction(df[i].Hazardous_t, 5, new_reuse_k)]
        nonhaz == [i \in DOMAIN df |-> sub_reduction(df[i].NonHazardous_t, 3, new_reuse_k)]
        df_scenario ==
            [i \in DOMAIN df |->
                [df[i] EXCEPT !.Hazardous_t = clip_lower(haz[i], 0),
                              !.NonHazardous_t = clip_lower(nonhaz[i], 0)]]
    IN  [df |-> df, ret |-> df_scenario, value |-> 0]

(***************************************************************************)
(* combined_esg_scenario.  The four ratios value / cap have the common     *)
(* denominator ScoreDen; the result is in hundredths.                      *)
(***************************************************************************)
ScoreDen == 3 * 50

\* round(num / den, 2) in hundredths: nearest, ties to even
round2(num, den) ==
    LET q == (num * 100) \div den
        rem == num * 100 - q * den
    IN  IF 2 * rem < den THEN q
        ELSE IF 2 * rem > den THEN q + 1
        ELSE IF q % 2 = 0 THEN q ELSE q + 1

\* mutant: the ratio is not capped at 1
dimension_score_uncapped(value, cap) == value * (ScoreDen \div cap) * 25

\* min(value / cap, 1) * 25, in units of 1 / ScoreDen
dimension_score(value, cap) ==
    LET ratio == IF value * (ScoreDen \div cap) < ScoreDen
                 THEN value * (ScoreDen \div cap)
                 ELSE ScoreDen
    IN  ratio * 25

combined_esg_scenario(ghg_red, water_inv, solar_mw, waste_reuse) ==
    LET ghg_score == dimension_score(ghg_red, 30)
        water_score == dimension_score(water_inv, 50)
        solar_score == dimension_score(solar_mw, 50)
        waste_score == dimension_score(waste_reuse, 10)
        total_score == ghg_score + water_score + solar_score + waste_score
    IN  round2(total_score, ScoreDen)

(***************************************************************************)
(* main(): the sliders and one run of the script.                          *)
(***************************************************************************)
Sliders ==
    [addl_reduction     |-> [min_value |-> 0, max_value |-> 30,  value |-> 10],
     inv_slider         |-> [min_value |-> 0, max_value |-> 50,  value |-> 10],
     solar_mw           |-> [min_value |-> 0, max_value |-> 100, value |-> 20],
     reuse_slider       |-> [min_value |-> 0, max_value |-> 20,  value |-> 5],
     addl_ghg_red_input |-> [min_value |-> 0, max_value |-> 30,  value |-> 10],
     water_invest_input |-> [min_value |-> 0, max_value |-> 50,  value |-> 10],
     solar_mw_input     |-> [min_value |-> 0, max_value |-> 50,  value |-> 20],
     waste_reuse_input  |-> [min_value |-> 0, max_value |-> 10,  value |-> 5]]

\* one run of the script with the slider values s: the frames it loaded,
\* as they are after the run, and what it displayed
main(s) ==
    LET data == load_data
        g == apply_ghg_scenario(data.df_ghg, s.addl_reduction)
        w == apply_water_scenario(data.df_water, s.inv_slider)
        e == apply_energy_scenario(data.df_energy, s.solar_mw)
        k == apply_waste_scenario(data.df_waste, s.reuse_slider)
    IN  [df_ghg |-> g.df, df_water |-> w.df, df_energy |-> e.df, df_waste |-> k.df,
         view |-> [df_ghg_scenario |-> g.ret,
                   df_water_scenario |-> w.ret,
                   r_pct |-> w.value,
                   df_energy_scenario |-> e.ret,
                   df_waste_scenario |-> k.ret,
                   final_score |-> combined_esg_scenario(s.addl_ghg_red_input,
                                                         s.water_invest_input,
                                                         s.solar_mw_input,
                                                         s.waste_reuse_input)]]

(***************************************************************************)
(* Inputs of the model.                                                    *)
(***************************************************************************)
\* the baselines: every run of at most MaxYears consecutive rows
Baselines ==
    UNION { { [f \in Frames |-> SubSeq(SampleTable[f], s, s + n - 1)] :
                s \in 1..(Len(SampleTable.df_ghg) - n + 1) } :
            n \in 0..MaxYears }

GhgArgs == {-10, 0, 10, 30, 100, 200}
WaterArgs == {-5, 0, 9, 10, 19, 25, 1000, 2000}
EnergyArgs == {-5, 0, 9, 95, 1000}
WasteArgs == {-1, 0, 5, 200, 201, 333, 334, 1000}

ScoreGhgArgs == {-30, 0, 10, 30, 60}
ScoreWaterArgs == {0, 10, 50, 100}
ScoreSolarArgs == {0, 20, 50, 100}
ScoreWasteArgs == {0, 5, 10, 100}

SliderNames == DOMAIN Sliders

\* the positions a slider is moved to: its ends, its default and 25
SliderValues(name) ==
    {Sliders[name].min_value, Sliders[name].value, Sliders[name].max_value}
        \cup {v \in {25} : Sliders[name].min_value <= v /\ v <= Sliders[name].max_value}

\* nothing displayed: the script has not run
NoView == <<>>

NoCall == [fn |-> "none", args |-> <<>>, ret |-> <<>>, value |-> 0]

(***************************************************************************)
(* Spec: calls of the four transforms on the same baseline frames.         *)
(***************************************************************************)
Init ==
    /\ baseline \in Baselines
    /\ df_ghg = baseline.df_ghg
    /\ df_water = baseline.df_water
    /\ df_energy = baseline.df_energy
    /\ df_waste = baseline.df_waste
    /\ call = NoCall
    /\ first = <<>>
    /\ ncalls = 0
    /\ slider = [n \in SliderNames |-> Sliders[n].value]
    /\ view = NoView

Returned(fn, arg, r) ==
    /\ call' = [fn |-> fn, args |-> <<arg>>, ret |-> r.ret, value |-> r.value]
    /\ first' = IF first = <<>> THEN <<call'>> ELSE first
    /\ ncalls' = ncalls + 1

CallGhg ==
    \E p \in GhgArgs :
        \E r \in {apply_ghg_scenario(df_ghg, p)} :
            /\ ncalls < MaxCalls
            /\ df_ghg' = r.df
            /\ Returned("apply_ghg_scenario", p, r)
            /\ UNCHANGED <<baseline, df_water, df_energy, df_waste, slider, view>>

CallWater ==
    \E v \in WaterArgs :
        \E r \in {apply_water_scenario(df_water, v)} :
            /\ ncalls < MaxCalls
            /\ df_water' = r.df
            /\ Returned("apply_water_scenario", v, r)
            /\ UNCHANGED <<baseline, df_ghg, df_energy, df_waste, slider, view>>

CallEnergy ==
    \E mw \in EnergyArgs :
        \E r \in {apply_energy_scenario(df_energy, mw)} :
            /\ ncalls < MaxCalls
            /\ df_energy' = r.df
            /\ Returned("apply_energy_scenario", mw, r)
            /\ UNCHANGED <<baseline, df_ghg, df_water, df_waste, slider, view>>

CallWaste ==
    \E k \in WasteArgs :
        \E r \in {apply_waste_scenario(df_waste, k)} :
            /\ ncalls < MaxCalls
            /\ df_waste' = r.df
            /\ Returned("apply_waste_scenario", k, r)
            /\ UNCHANGED <<baseline, df_ghg, df_water, df_energy, slider, view>>

Next == CallGhg \/ CallWater \/ CallEnergy \/ CallWaste

Spec == Init /\ [][Next]_vars

(***************************************************************************)
(* ScoreSpec: calls of combined_esg_scenario.                              *)
(***************************************************************************)
CallScore ==
    \E g \in ScoreGhgArgs, w \in ScoreWaterArgs,
       s \in ScoreSolarArgs, k \in ScoreWasteArgs :
        /\ call' = [fn |-> "combined_esg_scenario", args |-> <<g, w, s, k>>,
                    ret |-> <<>>, value |-> combined_esg_scenario(g, w, s, k)]
        /\ UNCHANGED <<baseline, df_ghg, df_water, df_energy, df_waste,
                       first, ncalls, slider, view>>

ScoreInit ==
    /\ Init
    /\ baseline = [f \in Frames |-> SubSeq(load_data[f], 1, MaxYears)]

ScoreSpec == ScoreInit /\ [][CallScore]_vars

(***************************************************************************)
(* AppSpec: the application.  Streamlit runs main() once at start and once *)
(* more, from the top, on every slider change.                             *)
(***************************************************************************)
\* mutant: the run transforms the frames displayed last, not the loaded ones
Run_accumulating(s) ==
    \E m \in {main(s)} :
        /\ slider' = s
        /\ df_ghg' = m.df_ghg
        /\ df_water' = m.df_water
        /\ df_energy' = m.df_energy
        /\ df_waste' = m.df_waste
        /\ view' = [m.view EXCEPT
                !.df_ghg_scenario =
                    apply_ghg_scenario(view.df_ghg_scenario, s.addl_reduction).ret,
                !.df_water_scenario =
                    apply_water_scenario(view.df_water_scenario, s.inv_slider).ret,
                !.df_energy_scenario =
                    apply_energy_scenario(view.df_energy_scenario, s.solar_mw).ret,
                !.df_waste_scenario =
                    apply_waste_scenario(view.df_waste_scenario, s.reuse_slider).ret]

Run(s) ==
    \E m \in {main(s)} :
        /\ slider' = s
        /\ df_ghg' = m.df_ghg
        /\ df_water' = m.df_water
        /\ df_energy' = m.df_energy
        /\ df_waste' = m.df_waste
        /\ view' = m.view

AppInit ==
    /\ baseline = [f \in Frames |-> load_data[f]]
    /\ slider = [n \in SliderNames |-> Sliders[n].value]
    /\ \E m \in {main(slider)} :
            /\ df_ghg = m.df_ghg
            /\ df_water = m.df_water
            /\ df_energy = m.df_energy
            /\ df_waste = m.df_waste
            /\ view = m.view
    /\ call = NoCall
    /\ first = <<>>
    /\ ncalls = 0

SliderChange ==
    \E name \in SliderNames :
        \E v \in SliderValues(name) :
            /\ v # slider[name]
            /\ Run([slider EXCEPT ![name] = v])
            /\ UNCHANGED <<baseline, call, first, ncalls>>

AppSpec == AppInit /\ [][SliderChange]_vars

(***************************************************************************)
(* Properties.                                                             *)
(***************************************************************************)
Transforms == {"apply_ghg_scenario", "apply_water_scenario",
               "apply_energy_scenario", "apply_waste_scenario"}

Min(a, b) == IF a < b THEN a ELSE b
Max(a, b) == IF a > b THEN a ELSE b
Abs(a) == IF a < 0 THEN 0 - a ELSE a

\* the step floor(v / 10), stated by its defining inequalities
IsFloorTenth(k, v) == 10 * k <= v /\ v <= 10 * k + 9

\* C1: for non-negative baselines and any non-negative parameter, every
\* numeric field a transform returns is >= 0.
C1_OutputsNonNegative ==
    (call.fn \in Transforms /\ call.args[1] >= 0)
        => /\ call.value >= 0
           /\ \A i \in DOMAIN call.ret :
                \A col \in DOMAIN call.ret[i] : call.ret[i][col] >= 0

\* C2: combined_esg_scenario returns a value in [0, 100] for all values of
\* its four parameters.
C2_ScoreInRange ==
    call.fn = "combined_esg_scenario" => (0 <= call.value /\ call.value <= 10000)

Caps == <<30, 50, 50, 10>>

\* C3: the score is the sum over the four dimensions of min(value/cap, 1)*25
\* rounded to 2 decimals; a value at or above its cap contributes exactly 25
\* and raising it further changes nothing; score(30,50,50,10) = 100.00 =
\* score(60,100,100,100) and score(0,0,0,0) = 0.00.
C3_ScoreFormula ==
    call.fn = "combined_esg_scenario" =>
        LET a == call.args
            \* min(value / cap, 1) * 25 in 150ths (150 is a multiple of every cap)
            part(d) == IF a[d] >= Caps[d] THEN 25 * 150
                       ELSE 25 * a[d] * (150 \div Caps[d])
            total == part(1) + part(2) + part(3) + part(4)
            capped == [d \in 1..4 |-> Min(a[d], Caps[d])]
        IN  /\ 2 * Abs(call.value * 150 - 100 * total) <= 150
            /\ call.value = combined_esg_scenario(capped[1], capped[2],
                                                  capped[3], capped[4])
            /\ (\A d \in 1..4 : a[d] >= Caps[d]) => call.value = 10000
            /\ (\A d \in 1..4 : a[d] = 0) => call.value = 0

C3_Witness ==
    /\ call.fn = "combined_esg_scenario"
    /\ call.args = <<60, 100, 100, 100>>
    /\ call.value = 10000

\* C4: after any sequence of transform calls every baseline dataset is
\* unchanged, and a call whose arguments equal those of an earlier call
\* returns the same result whatever was called in between.
C4_BaselineUnchanged ==
    /\ df_ghg = baseline.df_ghg
    /\ df_water = baseline.df_water
    /\ df_energy = baseline.df_energy
    /\ df_waste = baseline.df_waste
    /\ (first # <<>> /\ call.fn = first[1].fn /\ call.args = first[1].args)
            => call = first[1]

C4_Witness ==
    /\ ncalls = 3
    /\ call.fn = "apply_ghg_scenario"
    /\ call.args = <<30>>
    /\ call = first[1]
    /\ Len(call.ret) = 2
    /\ call.ret # baseline.df_ghg

\* C5: for p in [0, 100], apply_ghg_scenario(D, p) has D's years in D's
\* order, D's record count, and emissions D.emissions * (1 - p/100) in every
\* year; apply_ghg_scenario(D, 0) equals D.
C5_GhgScaled ==
    (call.fn = "apply_ghg_scenario" /\ call.args[1] \in 0..100) =>
        LET D == baseline.df_ghg
            p == call.args[1]
        IN  /\ Len(call.ret) = Len(D)
            /\ \A i \in DOMAIN D :
                /\ call.ret[i].Year = D[i].Year
                /\ call.ret[i].Scope12GHG * 100 = D[i].Scope12GHG * (100 - p)
            /\ p = 0 => call.ret = D

C5_Witness ==
    /\ call.fn = "apply_ghg_scenario"
    /\ call.args = <<30>>
    /\ Len(call.ret) = 3
    /\ call.ret[1].Year = 2018
    /\ call.ret[1].Scope12GHG = Dec(2058, 3)

\* C6: for v >= 0, apply_water_scenario(D, v) returns reduction_pct =
\* floor(v / 10) and a dataset whose freshwater is D.freshwater *
\* (1 - reduction_pct/100) with that returned reduction_pct and whose
\* non_freshwater is the baseline value.
C6_WaterStep ==
    (call.fn = "apply_water_scenario" /\ call.args[1] >= 0) =>
        LET D == baseline.df_water
            v == call.args[1]
            k == call.value
        IN  /\ IsFloorTenth(k, v)
            /\ v < 10 => k = 0
            /\ v = 25 => k = 2
            /\ Len(call.ret) = Len(D)
            /\ \A i \in DOMAIN D :
                /\ call.ret[i].Year = D[i].Year
                /\ call.ret[i].Freshwater_m3 * 100 = D[i].Freshwater_m3 * (100 - k)
                /\ call.ret[i].NonFreshwater_m3 = D[i].NonFreshwater_m3

C6_Witness ==
    /\ call.fn = "apply_water_scenario"
    /\ call.args = <<25>>
    /\ call.value = 2
    /\ Len(call.ret) = 1
    /\ call.ret[1].Freshwater_m3 = Dec(17052, 3)
    /\ call.ret[1].NonFreshwater_m3 = Dec(473, 1)

\* C7: for renewables_pct in [0, 100] and solar_mw_add >= 0, every year has
\* renewables_pct' = min(100, renewables_pct + floor(solar_mw_add / 10)), so
\* none exceeds 100, and total_energy is the baseline value.
C7_EnergyCapped ==
    (call.fn = "apply_energy_scenario" /\ call.args[1] >= 0) =>
        LET D == baseline.df_energy
            mw == call.args[1]
        IN  /\ Len(call.ret) = Len(D)
            /\ \E k \in 0..mw :
                /\ IsFloorTenth(k, mw)
                /\ \A i \in DOMAIN D :
                    /\ call.ret[i].Year = D[i].Year
                    /\ call.ret[i].Renewables_pct = Min(100, D[i].Renewables_pct + k)
                    /\ call.ret[i].Renewables_pct <= 100
                    /\ call.ret[i].Total_Energy_GJ = D[i].Total_Energy_GJ

C7_Witness ==
    /\ call.fn = "apply_energy_scenario"
    /\ call.args = <<95>>
    /\ Len(call.ret) = 2
    /\ baseline.df_energy[1].Renewables_pct = 95
    /\ call.ret[1].Renewables_pct = 100
    /\ call.ret[2].Renewables_pct = 12

\* max(0, x - x * (milli / 1000) * k) in exact arithmetic (x is a multiple
\* of 1000 units)
ExactWaste(x, milli, k) == Max(0, (x \div 1000) * (1000 - milli * k))

\* C8 as claimed: hazardous' = max(0, hazardous - hazardous*0.005*r) and
\* non_hazardous' = max(0, non_hazardous - non_hazardous*0.003*r) per field
\* and year; for r between 200 and 1000/3 every positive hazardous value
\* becomes exactly 0 and every positive non_hazardous value stays positive.
C8_WasteAsClaimed ==
    call.fn = "apply_waste_scenario" =>
        LET D == baseline.df_waste
            r == call.args[1]
        IN  \A i \in DOMAIN D :
                /\ call.ret[i].Hazardous_t = ExactWaste(D[i].Hazardous_t, 5, r)
                /\ call.ret[i].NonHazardous_t = ExactWaste(D[i].NonHazardous_t, 3, r)
                /\ (200 <= r /\ 3 * r <= 1000) =>
                    /\ call.ret[i].Hazardous_t = 0
                    /\ D[i].NonHazardous_t > 0 => call.ret[i].NonHazardous_t > 0

\* C8 amended: the two formulas hold, in float64: away from r = 200 the
\* result is the exact decimal value, at r = 200 (0.005 * r = 1) hazardous'
\* is 0 or a float64 rounding residue below every decimal grain; the floor
\* is per field and year; for 200 < r < 1000/3 every positive hazardous
\* value becomes exactly 0 and every positive non_hazardous value stays
\* positive.
C8_WasteFloored ==
    call.fn = "apply_waste_scenario" =>
        LET D == baseline.df_waste
            r == call.args[1]
        IN  /\ Len(call.ret) = Len(D)
            /\ \A i \in DOMAIN D :
                /\ call.ret[i].Year = D[i].Year
                /\ r # 200 => call.ret[i].Hazardous_t = ExactWaste(D[i].Hazardous_t, 5, r)
                /\ r = 200 => (0 <= call.ret[i].Hazardous_t
                                /\ call.ret[i].Hazardous_t < Grain)
                /\ call.ret[i].NonHazardous_t = ExactWaste(D[i].NonHazardous_t, 3, r)
                /\ (200 < r /\ 3 * r < 1000) =>
                    /\ call.ret[i].Hazardous_t = 0
                    /\ D[i].NonHazardous_t > 0 => call.ret[i].NonHazardous_t > 0

C8_Witness ==
    /\ call.fn = "apply_waste_scenario"
    /\ call.args = <<333>>
    /\ Len(call.ret) = 2
    /\ baseline.df_waste[1].Hazardous_t = Dec(295, 1)
    /\ call.ret[1].Hazardous_t = 0
    /\ call.ret[1].NonHazardous_t = Dec(55, 4)
    /\ call.ret[2].Hazardous_t = 0
    /\ call.ret[2].NonHazardous_t > 0

\* C9: given a negative parameter, the water, energy and waste transforms
\* never invert their direction: no freshwater, hazardous or non_hazardous
\* value above its baseline, no renewables_pct below its baseline.
C9_NoInversion ==
    (call.fn \in Transforms \ {"apply_ghg_scenario"} /\ call.args[1] < 0) =>
        \A i \in DOMAIN call.ret :
            /\ call.fn = "apply_water_scenario" =>
                call.ret[i].Freshwater_m3 <= baseline.df_water[i].Freshwater_m3
            /\ call.fn = "apply_energy_scenario" =>
                call.ret[i].Renewables_pct >= baseline.df_energy[i].Renewables_pct
            /\ call.fn = "apply_waste_scenario" =>
                /\ call.ret[i].Hazardous_t <= baseline.df_waste[i].Hazardous_t
                /\ call.ret[i].NonHazardous_t <= baseline.df_waste[i].NonHazardous_t

\* C10: in the application, after any sequence of slider changes, each
\* displayed dataset is the transform of the freshly loaded baseline with
\* the current slider value only, every displayed field is >= 0 and not
\* above its baseline, except renewables_pct which lies between its baseline
\* and 100, and the displayed score lies in [0, 100].
C10_DisplayFollowsSliders ==
    LET D == load_data
    IN  /\ Len(view.df_ghg_scenario) = Len(D.df_ghg)
        /\ Len(view.df_water_scenario) = Len(D.df_water)
        /\ Len(view.df_energy_scenario) = Len(D.df_energy)
        /\ Len(view.df_waste_scenario) = Len(D.df_waste)
        /\ IsFloorTenth(view.r_pct, slider.inv_slider)
        /\ \A i \in DOMAIN D.df_ghg :
            LET g == view.df_ghg_scenario[i].Scope12GHG
            IN  /\ g * 100 = D.df_ghg[i].Scope12GHG * (100 - slider.addl_reduction)
                /\ 0 <= g /\ g <= D.df_ghg[i].Scope12GHG
        /\ \A i \in DOMAIN D.df_water :
            LET w == view.df_water_scenario[i]
            IN  /\ w.Freshwater_m3 * 100 = D.df_water[i].Freshwater_m3 * (100 - view.r_pct)
                /\ 0 <= w.Freshwater_m3 /\ w.Freshwater_m3 <= D.df_water[i].Freshwater_m3
                /\ w.NonFreshwater_m3 = D.df_water[i].NonFreshwater_m3
        /\ \E k \in 0..slider.solar_mw :
            /\ IsFloorTenth(k, slider.solar_mw)
            /\ \A i \in DOMAIN D.df_energy :
                LET e == view.df_energy_scenario[i]
                IN  /\ e.Renewables_pct = Min(100, D.df_energy[i].Renewables_pct + k)
                    /\ D.df_energy[i].Renewables_pct <= e.Renewables_pct
                    /\ e.Renewables_pct <= 100
                    /\ e.Total_Energy_GJ = D.df_energy[i].Total_Energy_GJ
        /\ \A i \in DOMAIN D.df_waste :
            LET x == view.df_waste_scenario[i]
            IN  /\ x.Hazardous_t = ExactWaste(D.df_waste[i].Hazardous_t, 5, slider.reuse_slider)
                /\ x.NonHazardous_t = ExactWaste(D.df_waste[i].NonHazardous_t, 3, slider.reuse_slider)
                /\ 0 <= x.Hazardous_t /\ x.Hazardous_t <= D.df_waste[i].Hazardous_t
                /\ 0 <= x.NonHazardous_t /\ x.NonHazardous_t <= D.df_waste[i].NonHazardous_t
        /\ 0 <= view.final_score /\ view.final_score <= 10000

C10_Witness ==
    /\ slider.addl_reduction = 30
    /\ slider.inv_slider = 25
    /\ slider.solar_mw = 100
    /\ slider.reuse_slider = 20
    /\ slider.addl_ghg_red_input = 30
    /\ slider.water_invest_input = 50
    /\ slider.solar_mw_input = 50
    /\ slider.waste_reuse_input = 10
    /\ view.df_ghg_scenario[1].Scope12GHG = Dec(2058, 3)
    /\ view.r_pct = 2
    /\ view.df_energy_scenario[6].Renewables_pct = 19
    /\ view.df_waste_scenario[6].Hazardous_t = Dec(2151, 2)
    /\ view.final_score = 10000

====
